---- MODULE Spec2Model ----
(***************************************************************************)
(* A model of the validation harness of gpu-text-search:                   *)
(*   Validation/accuracy_validation.py  (content synthesis, the scenario   *)
(*                                       matrix, the differential check)   *)
(*   Validation/validate_binary.py      (binary export decoding and        *)
(*                                       reconciliation)                   *)
(*   Validation/comprehensive_test.py   (CLI adapter, manual verifier)     *)
(*                                                                         *)
(* Text and bytes are sequences of one-character strings / of integers in  *)
(* 0..255.  A pure function of the source is an operator; a specification  *)
(* SpecXxx draws its arguments in Init (variable call) and applies it in   *)
(* one action (variable ret).  The suite driver main() is the state        *)
(* machine Spec.                                                           *)
(***************************************************************************)
EXTENDS Integers, Sequences, FiniteSets, TLC

VARIABLES
    call,            \* the function applied and its arguments ("main" for the suite)
    ret,             \* what the function returned, NoRet before it returns
    pc,              \* where main() stands
    build_returncode,\* the return code of the build, NoCode before it ran
    row,             \* index of main's loop into its table of pattern lengths
    case_i,          \* index of test_pattern_size's loop into test_cases
    failures,        \* test_pattern_size's local counter
    total_failures,  \* main's counter
    temp_files,      \* the temporary files that exist, by (row, case)
    child,           \* the subprocess.run call in flight, NoProc otherwise
    gpu_result,      \* (gpu_count, gpu_positions, gpu_error) of the scenario
    grep_result,     \* (grep_count, grep_positions, grep_error) of the scenario
    exit_status,     \* the status the process ends with, NoCode while it runs
    ran,             \* history: scenarios whose check was carried out
    rejected         \* history: of those, the ones not accepted

mainVars == <<pc, build_returncode, row, case_i, failures, total_failures,
              temp_files, child, gpu_result, grep_result, exit_status, ran,
              rejected>>

vars == <<call, ret, mainVars>>

NoRet == [fn |-> "none"]

\* A return code or exit status not yet set.
NoCode == -1

NoProc == [who |-> "none", timeout |-> 0, hangs |-> FALSE]
NoResult == [count |-> -1, positions |-> <<>>, error |-> "unset"]

\* The suite's variables while a single function is applied.
MainIdle ==
    /\ pc = "idle"
    /\ build_returncode = NoCode
    /\ row = 0 /\ case_i = 0
    /\ failures = 0 /\ total_failures = 0
    /\ temp_files = {}
    /\ child = NoProc
    /\ gpu_result = NoResult /\ grep_result = NoResult
    /\ exit_status = NoCode
    /\ ran = 0 /\ rejected = 0

----------------------------------------------------------------------------
(* Bounds of the model.                                                    *)

MaxContent == 4      \* largest content size of a freely drawn input
MaxPatLen == 2       \* longest pattern of a freely drawn input
MaxPositions == 3    \* most requested / reported positions of a drawn input
MaxOffset == 2       \* largest byte offset an adapter reports in a drawn result
MaxFileLen == 13     \* longest binary export file, in bytes
MaxCandidates == 2   \* most candidate positions handed to a manual verifier
MaxLines == 2        \* most lines of a drawn engine output
MaxRows == 3         \* rows of main's table of pattern lengths the suite runs

----------------------------------------------------------------------------
(* Python built-ins the source relies on.                                  *)

Abs(x) == IF x < 0 THEN -x ELSE x

\* sorted(): ascending, duplicates kept (insertion sort).
RECURSIVE InsertSorted(_, _)
InsertSorted(s, x) ==
    IF s = <<>> THEN <<x>>
    ELSE IF x < Head(s) THEN <<x>> \o s
    ELSE <<Head(s)>> \o InsertSorted(Tail(s), x)

RECURSIVE Sorted(_)
Sorted(s) == IF s = <<>> THEN <<>> ELSE InsertSorted(Sorted(Tail(s)), Head(s))

\* set(): the values of a list.
SetOf(s) == {s[i] : i \in DOMAIN s}

\* All sequences over S of length at most n.
SeqsUpTo(S, n) == UNION {[1..k -> S] : k \in 0..n}

\* Python list indexing: the 1-based slot that index idx designates in a
\* list of n items (negative indices count from the end), 0 for IndexError.
PyIndex(n, idx) ==
    IF idx >= 0 /\ idx < n THEN idx + 1
    ELSE IF idx < 0 /\ idx >= -n THEN idx + n + 1
    ELSE 0

----------------------------------------------------------------------------
(* accuracy_validation.py: generate_test_content                           *)

Upper == <<"A","B","C","D","E","F","G","H","I","J","K","L","M",
           "N","O","P","Q","R","S","T","U","V","W","X","Y","Z">>

TestPatternPrefix == <<"T","E","S","T","P","A","T","T","E","R","N">>

\* The pattern test_pattern_size builds for a pattern length.
TestPattern(pattern_len) ==
    IF pattern_len = 1 THEN <<"X">>
    ELSE IF pattern_len <= 26 THEN SubSeq(Upper, 1, pattern_len)
    ELSE TestPatternPrefix \o [i \in 1..(pattern_len - 11) |-> "X"]

\* The scenario table of test_pattern_size.
TestCases(pattern_len) ==
    << [content_size |-> 1000, pattern_positions |-> <<0>>,
        description |-> "start of file"],
       [content_size |-> 1000, pattern_positions |-> <<999 - pattern_len>>,
        description |-> "end of file"],
       [content_size |-> 1000, pattern_positions |-> <<500>>,
        description |-> "middle of file"],
       [content_size |-> 1000, pattern_positions |-> <<1, 3, 7>>,
        description |-> "unaligned positions"],
       [content_size |-> 1000, pattern_positions |-> <<0, 16, 32, 48>>,
        description |-> "16-byte aligned"],
       [content_size |-> 1000, pattern_positions |-> <<4, 20, 36, 52>>,
        description |-> "4-byte aligned"],
       [content_size |-> 1000, pattern_positions |-> <<2, 18, 34, 50>>,
        description |-> "2-byte aligned"],
       [content_size |-> 5000, pattern_positions |-> [i \in 1..10 |-> (i - 1) * 100],
        description |-> "multiple matches"],
       [content_size |-> 1000, pattern_positions |-> <<>>,
        description |-> "no matches"] >>

\* The pattern lengths of main's table, in order.
MainTestCases ==
    <<1, 2, 3, 4, 5, 6, 7, 8, 9, 10, 12, 15, 16, 20, 32, 50, 100, 256, 1000>>

\* The base content: content_size characters of lowercase letters and
\* digits.  The source draws each at random; no decision of the harness
\* reads them, so one fill character stands for the draw.
BaseFills == {"a", "7"}
BaseContent(content_size, fill) == [i \in 1..content_size |-> fill]

\* Line 69, loop 68-71: pos lies within len(pattern) of an accepted position.
OverlapsOffByOne(pos, valid_positions, pattern) ==
    \E j \in DOMAIN valid_positions :
        Abs(pos - valid_positions[j]) < Len(pattern) - 1

Overlaps(pos, valid_positions, pattern) ==
    \E j \in DOMAIN valid_positions :
        Abs(pos - valid_positions[j]) < Len(pattern)

\* Line 73: the admission test.
Admitted(pos, valid_positions, pattern, content) ==
    ~Overlaps(pos, valid_positions, pattern) /\ pos + Len(pattern) <= Len(content)

\* Lines 75-76: content[pos + i] = char for i = 0 .. len(pattern)-1, in that
\* order.  Some index is out of range iff the first one is (the admission
\* test bounds the last): IndexError.
WriteRaises(content, pattern, pos) ==
    \E i \in 0..(Len(pattern) - 1) : PyIndex(Len(content), pos + i) = 0

\* The list after the writes.  Slot k is written by i = k-1-pos (index
\* pos+i >= 0) and by i = k-1-n-pos (index pos+i < 0, counted from the
\* end); when both are in range the larger i, written later, wins.
WritePattern(content, pattern, pos) ==
    LET n == Len(content)
        m == Len(pattern)
    IN  [k \in 1..n |->
            IF k - 1 - pos >= 0 /\ k - 1 - pos < m THEN pattern[k - pos]
            ELSE IF k - 1 - n - pos >= 0 /\ k - 1 - n - pos < m
                 THEN pattern[k - n - pos]
            ELSE content[k]]

\* Lines 65-76: the loop over sorted_positions from index k on.
RECURSIVE GenLoop(_, _, _, _, _)
GenLoop(content, pattern, sorted_positions, k, valid_positions) ==
    IF k > Len(sorted_positions)
    THEN [fn |-> "generate_test_content", raised |-> FALSE,
          content |-> content, valid_positions |-> valid_positions]
    ELSE LET pos == sorted_positions[k] IN
         IF Admitted(pos, valid_positions, pattern, content)
         THEN IF WriteRaises(content, pattern, pos)
              THEN [fn |-> "generate_test_content", raised |-> TRUE,
                    content |-> content,
                    valid_positions |-> Append(valid_positions, pos)]
              ELSE GenLoop(WritePattern(content, pattern, pos), pattern,
                           sorted_positions, k + 1, Append(valid_positions, pos))
         ELSE GenLoop(content, pattern, sorted_positions, k + 1, valid_positions)

\* generate_test_content(base_content, pattern, positions).  The source
\* returns the content alone; valid_positions is its local list, kept here
\* so that the placements can be stated.
GenerateTestContent(base_content, pattern, positions) ==
    GenLoop(base_content, pattern, Sorted(positions), 1, <<>>)

\* Arguments the scenario table produces, for every pattern length of main.
TableCalls ==
    {[fn |-> "generate_test_content", from_table |-> TRUE,
      base_content |-> BaseContent(TestCases(MainTestCases[r])[c].content_size, "a"),
      pattern |-> TestPattern(MainTestCases[r]),
      positions |-> TestCases(MainTestCases[r])[c].pattern_positions] :
        r \in DOMAIN MainTestCases, c \in 1..9}

\* Freely drawn arguments: any content size, pattern length and positions
\* (negative and out-of-range ones included) within the bounds.
FreeCalls ==
    {[fn |-> "generate_test_content", from_table |-> FALSE,
      base_content |-> BaseContent(n, fill),
      pattern |-> TestPattern(m),
      positions |-> ps] :
        n \in 0..MaxContent, fill \in BaseFills, m \in 1..MaxPatLen,
        ps \in SeqsUpTo((-1)..MaxContent, MaxPositions)}

InitGen ==
    /\ call \in TableCalls \cup FreeCalls
    /\ ret = NoRet
    /\ MainIdle

CallGenerateTestContent ==
    /\ call.fn = "generate_test_content"
    /\ ret = NoRet
    /\ ret' = GenerateTestContent(call.base_content, call.pattern, call.positions)
    /\ UNCHANGED <<call, mainVars>>

NextGen == CallGenerateTestContent

SpecGen == InitGen /\ [][NextGen]_vars

GenDone == call.fn = "generate_test_content" /\ ret # NoRet

\* C3: the positions generate_test_content accepts are pairwise separated
\* by at least len(pattern), whichever earlier acceptance they are compared
\* with.
C3_AcceptedSeparated ==
    GenDone =>
        \A i, j \in DOMAIN ret.valid_positions :
            i # j => Abs(ret.valid_positions[i] - ret.valid_positions[j])
                        >= Len(call.pattern)

\* A call that accepted three positions and rejected a requested one.
C3_Witness ==
    /\ GenDone
    /\ ~ret.raised
    /\ Len(ret.valid_positions) >= 3
    /\ Len(ret.valid_positions) < Len(call.positions)

\* C4: for the arguments the scenario table produces, every accepted
\* position p is a byte range of the returned content that holds the
\* pattern: 0 <= p, p + len(pattern) <= contentSize, content[p, p+len) =
\* pattern.
C4_AcceptedIsPlacement ==
    (GenDone /\ call.from_table /\ ~ret.raised) =>
        \A j \in DOMAIN ret.valid_positions :
            LET p == ret.valid_positions[j] IN
            /\ 0 <= p
            /\ p + Len(call.pattern) <= Len(ret.content)
            /\ SubSeq(ret.content, p + 1, p + Len(call.pattern)) = call.pattern

----------------------------------------------------------------------------
(* accuracy_validation.py: the adapters' result shape and the check of one *)
(* scenario (test_pattern_size, lines 127-151)                             *)

None == "None"

\* The count of a failed result (Python's None; counts are never negative).
NoCount == -1

\* What run_gpu_search returns: (match_count, positions, None) on success
\* (line 36), (None, [], message) on failure (lines 22, 38).
GpuOk(match_count, positions) ==
    [count |-> match_count, positions |-> positions, error |-> None]
GpuFailed(message) == [count |-> NoCount, positions |-> <<>>, error |-> message]

\* What run_grep_search returns: (len(positions), sorted(positions), None)
\* (line 53), (None, [], message) on an exception (line 55).
GrepOk(positions) ==
    [count |-> Len(positions), positions |-> Sorted(positions), error |-> None]
GrepFailed(message) == [count |-> NoCount, positions |-> <<>>, error |-> message]

\* Lines 127-151 with the two position lists compared as returned.
ScenarioOutcomeUnsorted(gpu, grep) ==
    IF gpu.error # None THEN "gpu_error"
    ELSE IF grep.error # None THEN "grep_error"
    ELSE IF gpu.count # grep.count THEN "count_mismatch"
    ELSE IF gpu.positions # grep.positions THEN "position_mismatch"
    ELSE "accepted"

\* Lines 127-151: the branch the check of a scenario takes.  Every branch
\* but the last adds one to failures.
ScenarioOutcome(gpu, grep) ==
    IF gpu.error # None THEN "gpu_error"
    ELSE IF grep.error # None THEN "grep_error"
    ELSE IF gpu.count # grep.count THEN "count_mismatch"
    ELSE IF Sorted(gpu.positions) # Sorted(grep.positions) THEN "position_mismatch"
    ELSE "accepted"

\* The sorted list of a set of offsets (a scanner reports each offset once).
RECURSIVE ListOf(_)
ListOf(S) == IF S = {} THEN <<>>
             ELSE LET x == CHOOSE y \in S : \A z \in S : y <= z
                  IN  <<x>> \o ListOf(S \ {x})

\* Engine results: any reported count with any list of offsets (in any
\* order, repeats included), or a failure.
GpuResults ==
    {GpuOk(c, ps) : c \in 0..MaxPositions,
                    ps \in SeqsUpTo(0..MaxOffset, MaxPositions)}
        \cup {GpuFailed("GPU search failed")}

\* Reference results: the offsets of a set of matches, or a failure.
GrepResults ==
    {GrepOk(ListOf(S)) : S \in SUBSET (0..MaxOffset)}
        \cup {GrepFailed("Grep error")}

InitCompare ==
    /\ call \in {[fn |-> "scenario_check", gpu |-> g, grep |-> r] :
                    g \in GpuResults, r \in GrepResults}
    /\ ret = NoRet
    /\ MainIdle

CallScenarioCheck ==
    /\ call.fn = "scenario_check"
    /\ ret = NoRet
    /\ ret' = [fn |-> "scenario_check",
               outcome |-> ScenarioOutcome(call.gpu, call.grep)]
    /\ UNCHANGED <<call, mainVars>>

NextCompare == CallScenarioCheck

SpecCompare == InitCompare /\ [][NextCompare]_vars

CompareDone ==
    /\ call.fn = "scenario_check" /\ ret # NoRet
    /\ call.gpu.error = None /\ call.grep.error = None

\* How often v occurs in the list s.
Occurrences(s, v) == Cardinality({i \in DOMAIN s : s[i] = v})

\* C1 (as claimed): with no adapter error, a scenario is accepted iff the
\* counts are equal and the SETS of positions are equal.
C1_AcceptedIffSetsEqual ==
    CompareDone =>
        (ret.outcome = "accepted" <=>
            /\ call.gpu.count = call.grep.count
            /\ SetOf(call.gpu.positions) = SetOf(call.grep.positions))

\* C1 (amended): with no adapter error, a scenario is accepted iff the
\* counts are equal and every offset occurs equally often in the two
\* position lists; the order of either list plays no part.
C1_AcceptedIffSameOccurrences ==
    CompareDone =>
        (ret.outcome = "accepted" <=>
            /\ call.gpu.count = call.grep.count
            /\ \A v \in SetOf(call.gpu.positions) \cup SetOf(call.grep.positions) :
                  Occurrences(call.gpu.positions, v)
                      = Occurrences(call.grep.positions, v))

\* An accepted scenario whose engine positions came back out of order.
C1_Witness ==
    /\ CompareDone
    /\ ret.outcome = "accepted"
    /\ Len(call.gpu.positions) >= 2
    /\ call.gpu.positions # call.grep.positions

----------------------------------------------------------------------------
(* validate_binary.py: read_binary_positions                               *)

Min(a, b) == IF a < b THEN a ELSE b

\* struct.unpack('>I', data)[0]: the four bytes read big-endian.
UnpackBigEndian(data) ==
    data[4] + 256 * data[3] + 65536 * data[2] + 16777216 * data[1]

\* Line 15, struct.unpack('<I', data)[0]: four bytes, little-endian, unsigned.
Unpack(data) ==
    data[1] + 256 * data[2] + 65536 * data[3] + 16777216 * data[4]

\* Lines 11-16: the read loop from byte offset `offset` on.  f.read(4)
\* returns the next four bytes, fewer at the end of the file and none after
\* it; struct.unpack raises struct.error on fewer than four bytes, and the
\* function catches nothing.
RECURSIVE ReadLoop(_, _, _)
ReadLoop(file, offset, positions) ==
    LET data == SubSeq(file, offset + 1, Min(offset + 4, Len(file))) IN
    IF data = <<>>
    THEN [fn |-> "read_binary_positions", raised |-> FALSE, positions |-> positions]
    ELSE IF Len(data) # 4
    THEN [fn |-> "read_binary_positions", raised |-> TRUE, positions |-> <<>>]
    ELSE ReadLoop(file, offset + 4, Append(positions, Unpack(data)))

\* read_binary_positions(filename), on the bytes of the file.  When raised,
\* the call returns no list (the positions field is then unused).
ReadBinaryPositions(file) == ReadLoop(file, 0, <<>>)

\* Byte values of a drawn file.  TLC's integers are 32-bit signed, so the
\* drawn bytes are kept below 128: every decoded value then fits.
ByteSamples == {0, 127}

InitRead ==
    /\ call \in {[fn |-> "read_binary_positions", file |-> f] :
                    f \in SeqsUpTo(ByteSamples, MaxFileLen)}
    /\ ret = NoRet
    /\ MainIdle

CallReadBinaryPositions ==
    /\ call.fn = "read_binary_positions"
    /\ ret = NoRet
    /\ ret' = ReadBinaryPositions(call.file)
    /\ UNCHANGED <<call, mainVars>>

NextRead == CallReadBinaryPositions

SpecRead == InitRead /\ [][NextRead]_vars

ReadDone == call.fn = "read_binary_positions" /\ ret # NoRet

\* C5: a file of L bytes decodes to exactly L/4 positions, the i-th being
\* the unsigned little-endian value of bytes [4i, 4i+4), when 4 divides L,
\* and ends in a decode error with no list returned otherwise.
C5_DecodeExactOrError ==
    ReadDone =>
        LET L == Len(call.file) IN
        IF L % 4 = 0
        THEN /\ ~ret.raised
             /\ Len(ret.positions) = L \div 4
             /\ \A i \in 1..(L \div 4) :
                   ret.positions[i] =
                       call.file[4 * i - 3] + 256 * call.file[4 * i - 2]
                         + 65536 * call.file[4 * i - 1]
                         + 16777216 * call.file[4 * i]
        ELSE ret.raised

\* A 12-byte file decoded to three positions with distinct byte values.
C5_Witness ==
    /\ ReadDone
    /\ Len(call.file) = 12
    /\ ~ret.raised
    /\ Len(ret.positions) = 3
    /\ ret.positions[1] = 127
    /\ ret.positions[2] = 32512

\* A 13-byte file, which ends in the decode error.
C5_WitnessError == ReadDone /\ Len(call.file) = 13 /\ ret.raised

----------------------------------------------------------------------------
(* validate_binary.py: the reconciliation of __main__ (lines 79-101)       *)

\* Lines 80-101: the verdict lines printed for the three position lists.
Reconcile(binary_positions, grep_positions, valid_positions) ==
    LET binary_sorted == Sorted(binary_positions)
        grep_sorted == Sorted(grep_positions)
        valid_sorted == Sorted(valid_positions)
    IN  (IF binary_sorted = grep_sorted /\ grep_sorted = valid_sorted
         THEN {"PERFECT MATCH"} ELSE {"MISMATCH DETECTED"})
        \cup
        (IF SetOf(binary_positions) = SetOf(grep_positions)
               /\ SetOf(grep_positions) = SetOf(valid_positions)
         THEN {"CONTENT MATCH"} ELSE {})

\* The items of s whose value is in V, in order (a verifier keeps or drops
\* a position by its value).
Keep(s, V) == SelectSeq(s, LAMBDA x : x \in V)

\* Triples __main__ can hold: any decoded list, the sorted offsets of the
\* reference scanner (line 30), and the decoded positions that passed the
\* manual check (line 76).
InitReconcile ==
    /\ call \in {[fn |-> "reconcile", binary_positions |-> b,
                  grep_positions |-> ListOf(G), valid_positions |-> Keep(b, V)] :
                    b \in SeqsUpTo(0..MaxOffset, MaxPositions),
                    G \in SUBSET (0..MaxOffset), V \in SUBSET (0..MaxOffset)}
    /\ ret = NoRet
    /\ MainIdle

CallReconcile ==
    /\ call.fn = "reconcile"
    /\ ret = NoRet
    /\ ret' = [fn |-> "reconcile",
               verdicts |-> Reconcile(call.binary_positions, call.grep_positions,
                                      call.valid_positions)]
    /\ UNCHANGED <<call, mainVars>>

NextReconcile == CallReconcile

SpecReconcile == InitReconcile /\ [][NextReconcile]_vars

ReconcileDone == call.fn = "reconcile" /\ ret # NoRet

SameSets ==
    /\ SetOf(call.binary_positions) = SetOf(call.grep_positions)
    /\ SetOf(call.grep_positions) = SetOf(call.valid_positions)

\* C2: the reconciliation emits exactly one verdict: the exact match when
\* the lists agree as returned in ascending order, the content match only
\* when the sets are equal and the returned order is not ascending, the
\* mismatch when the sets differ.
C2_OneVerdict ==
    ReconcileDone =>
        /\ Cardinality(ret.verdicts) = 1
        /\ (/\ call.binary_positions = call.grep_positions
            /\ call.binary_positions = call.valid_positions
            /\ call.binary_positions = Sorted(call.binary_positions))
              => ret.verdicts = {"PERFECT MATCH"}
        /\ "CONTENT MATCH" \in ret.verdicts
              => (SameSets /\ call.binary_positions # Sorted(call.binary_positions))
        /\ ~SameSets => ret.verdicts = {"MISMATCH DETECTED"}

----------------------------------------------------------------------------
(* The manual byte verifiers: validate_binary.py validate_positions_in_file *)
(* and comprehensive_test.py validate_positions_manually                   *)

\* Python slicing s[lo:hi] of a sequence of n items: a negative bound counts
\* from the end, every bound is clamped into 0..n, and the slice is empty
\* when the bounds cross.
SliceBound(n, b) == IF b < 0 THEN (IF b + n < 0 THEN 0 ELSE b + n) ELSE Min(b, n)
PySlice(s, lo, hi) == SubSeq(s, SliceBound(Len(s), lo) + 1, SliceBound(Len(s), hi))

\* validate_binary.py lines 41-49, one position: "valid", "invalid" (printed
\* with the bytes found) or "out of bounds" (printed).
ClassifyInFile(content, pattern_bytes, pos) ==
    IF pos + Len(pattern_bytes) <= Len(content)
    THEN IF PySlice(content, pos, pos + Len(pattern_bytes)) = pattern_bytes
         THEN "valid" ELSE "invalid"
    ELSE "out of bounds"

\* comprehensive_test.py lines 67-72, one position: "valid", "invalid"
\* (printed), or "skipped": the bounds test has no else branch.
ClassifyManually(content, pattern_bytes, pos) ==
    IF pos + Len(pattern_bytes) <= Len(content)
    THEN IF PySlice(content, pos, pos + Len(pattern_bytes)) = pattern_bytes
         THEN "valid" ELSE "invalid"
    ELSE "skipped"

\* validate_positions_in_file(filename, pattern, positions), on the bytes of
\* the file: the list returned and the positions a diagnostic was printed for.
ValidatePositionsInFile(content, pattern_bytes, positions) ==
    [fn |-> "validate_positions_in_file",
     valid_positions |->
        SelectSeq(positions,
                  LAMBDA p : ClassifyInFile(content, pattern_bytes, p) = "valid"),
     printed |->
        SelectSeq(positions,
                  LAMBDA p : ClassifyInFile(content, pattern_bytes, p)
                                \in {"invalid", "out of bounds"})]

\* validate_positions_manually(file_path, pattern, positions): the list
\* returned (with its length as the count) and the positions a diagnostic
\* was printed for.
ValidatePositionsManually(content, pattern_bytes, positions) ==
    [fn |-> "validate_positions_manually",
     valid_positions |->
        SelectSeq(positions,
                  LAMBDA p : ClassifyManually(content, pattern_bytes, p) = "valid"),
     printed |->
        SelectSeq(positions,
                  LAMBDA p : ClassifyManually(content, pattern_bytes, p) = "invalid")]

\* Byte values of a drawn content or pattern.
TextBytes == {88, 97}

\* validate_positions_in_file is handed the decoded unsigned values;
\* validate_positions_manually the integers parsed from the engine's output.
InitVerify ==
    /\ call \in
          {[fn |-> "validate_positions_in_file", content |-> c,
            pattern_bytes |-> pb, positions |-> ps] :
              c \in SeqsUpTo(TextBytes, MaxContent),
              pb \in SeqsUpTo(TextBytes, MaxPatLen) \ {<<>>},
              ps \in SeqsUpTo(0..(MaxContent + 1), MaxCandidates)}
          \cup
          {[fn |-> "validate_positions_manually", content |-> c,
            pattern_bytes |-> pb, positions |-> ps] :
              c \in SeqsUpTo(TextBytes, MaxContent),
              pb \in SeqsUpTo(TextBytes, MaxPatLen) \ {<<>>},
              ps \in SeqsUpTo((-MaxContent)..(MaxContent + 1), MaxCandidates)}
    /\ ret = NoRet
    /\ MainIdle

CallValidatePositionsInFile ==
    /\ call.fn = "validate_positions_in_file"
    /\ ret = NoRet
    /\ ret' = ValidatePositionsInFile(call.content, call.pattern_bytes, call.positions)
    /\ UNCHANGED <<call, mainVars>>

CallValidatePositionsManually ==
    /\ call.fn = "validate_positions_manually"
    /\ ret = NoRet
    /\ ret' = ValidatePositionsManually(call.content, call.pattern_bytes,
                                        call.positions)
    /\ UNCHANGED <<call, mainVars>>

NextVerify == CallValidatePositionsInFile \/ CallValidatePositionsManually

SpecVerify == InitVerify /\ [][NextVerify]_vars

VerifyDone ==
    /\ call.fn \in {"validate_positions_in_file", "validate_positions_manually"}
    /\ ret # NoRet

\* The bytes of content at [p, p + len(pattern)) lie within the content
\* and equal the pattern.
MatchesAt(content, pattern_bytes, p) ==
    /\ 0 <= p
    /\ p + Len(pattern_bytes) <= Len(content)
    /\ \A i \in 1..Len(pattern_bytes) : content[p + i] = pattern_bytes[i]

\* C6: a manual verifier returns a candidate iff its byte range lies within
\* the content and holds the pattern, and prints a diagnostic for every
\* candidate it does not return.
C6_VerifierPartitions ==
    VerifyDone =>
        \A k \in DOMAIN call.positions :
            LET p == call.positions[k] IN
            /\ p \in SetOf(ret.valid_positions)
                  <=> MatchesAt(call.content, call.pattern_bytes, p)
            /\ p \notin SetOf(ret.valid_positions) => p \in SetOf(ret.printed)

----------------------------------------------------------------------------
(* The engine adapters: accuracy_validation.py run_gpu_search and          *)
(* comprehensive_test.py run_cli_search.  Text is a sequence of            *)
(* characters.                                                             *)

Whitespace == {" ", "\n"}

\* str.strip()
RECURSIVE LStrip(_)
LStrip(s) == IF s # <<>> /\ Head(s) \in Whitespace THEN LStrip(Tail(s)) ELSE s
RECURSIVE RStrip(_)
RStrip(s) ==
    IF s # <<>> /\ s[Len(s)] \in Whitespace
    THEN RStrip(SubSeq(s, 1, Len(s) - 1)) ELSE s
Strip(s) == RStrip(LStrip(s))

\* str.split(sep) for a one-character separator: always at least one piece.
RECURSIVE Split(_, _)
Split(s, sep) ==
    IF \E i \in DOMAIN s : s[i] = sep
    THEN LET i == CHOOSE i \in DOMAIN s :
                     s[i] = sep /\ \A j \in 1..(i - 1) : s[j] # sep
         IN  <<SubSeq(s, 1, i - 1)>> \o Split(SubSeq(s, i + 1, Len(s)), sep)
    ELSE <<s>>

\* str.startswith / str.endswith
StartsWith(s, prefix) ==
    Len(s) >= Len(prefix) /\ SubSeq(s, 1, Len(prefix)) = prefix
EndsWith(s, suffix) ==
    Len(s) >= Len(suffix) /\ SubSeq(s, Len(s) - Len(suffix) + 1, Len(s)) = suffix

DigitChars == <<"0", "1", "2", "3", "4", "5", "6", "7", "8", "9">>
IsDigit(c) == \E i \in DOMAIN DigitChars : DigitChars[i] = c
DigitValue(c) == (CHOOSE i \in DOMAIN DigitChars : DigitChars[i] = c) - 1

RECURSIVE DigitsValue(_)
DigitsValue(d) ==
    IF d = <<>> THEN 0
    ELSE 10 * DigitsValue(SubSeq(d, 1, Len(d) - 1)) + DigitValue(d[Len(d)])

\* int(text): surrounding whitespace is ignored, one sign is allowed, the
\* rest must be decimal digits; anything else is a ValueError.
IntBody(text) ==
    LET t == Strip(text)
    IN  IF t # <<>> /\ t[1] \in {"+", "-"} THEN Tail(t) ELSE t
IntOk(text) ==
    IntBody(text) # <<>> /\ \A i \in DOMAIN IntBody(text) : IsDigit(IntBody(text)[i])
IntValue(text) ==
    IF Strip(text)[1] = "-" THEN -DigitsValue(IntBody(text))
    ELSE DigitsValue(IntBody(text))

MatchesFound == <<"M", "a", "t", "c", "h", "e", "s", " ", "f", "o", "u", "n", "d", ":">>

\* Lines 32-34 (and comprehensive_test.py 30-32): the offsets of a bracket
\* line; ok is FALSE when an item is no integer (ValueError).
BracketItems(line) ==
    LET stripped == Strip(line)
        pos_str == SubSeq(stripped, 2, Len(stripped) - 1)
    IN  IF pos_str = <<>> THEN <<>> ELSE Split(pos_str, ",")
BracketOk(line) == \A i \in DOMAIN BracketItems(line) : IntOk(BracketItems(line)[i])
BracketPositions(line) ==
    [i \in DOMAIN BracketItems(line) |-> IntValue(BracketItems(line)[i])]
IsBracketLine(line) == StartsWith(line, <<"[">>) /\ EndsWith(line, <<"]">>)

\* Lines 28-34: the loop over the output lines from line k on.  A bracket
\* line with nothing between the brackets leaves positions as it was.
RECURSIVE GpuParse(_, _, _, _)
GpuParse(lines, k, match_count, positions) ==
    IF k > Len(lines) THEN GpuOk(match_count, positions)
    ELSE LET line == lines[k] IN
         IF StartsWith(line, MatchesFound)
         THEN LET field == Split(line, ":")[2] IN
              IF IntOk(field)
              THEN GpuParse(lines, k + 1, IntValue(field), positions)
              ELSE GpuFailed("GPU error")
         ELSE IF IsBracketLine(line)
         THEN IF ~BracketOk(line) THEN GpuFailed("GPU error")
              ELSE IF BracketItems(line) = <<>>
              THEN GpuParse(lines, k + 1, match_count, positions)
              ELSE GpuParse(lines, k + 1, match_count, BracketPositions(line))
         ELSE GpuParse(lines, k + 1, match_count, positions)

\* run_gpu_search(file_path, pattern), on what the subprocess did: it ran
\* into the 30 s timeout (subprocess.TimeoutExpired, caught at line 37), or
\* it ended with a return code and an output.
RunGpuSearch(proc) ==
    IF proc.timed_out THEN GpuFailed("GPU error")
    ELSE IF proc.returncode # 0 THEN GpuFailed("GPU search failed")
    ELSE GpuParse(Split(Strip(proc.stdout), "\n"), 1, 0, <<>>)

\* What run_cli_search returns: (match_count, positions), or (None, []).
CliOk(match_count, positions) ==
    [fn |-> "run_cli_search", none |-> FALSE,
     count |-> match_count, positions |-> positions]
CliFailed ==
    [fn |-> "run_cli_search", none |-> TRUE, count |-> NoCount, positions |-> <<>>]

\* comprehensive_test.py lines 27-33: the first bracket line decides.
RECURSIVE CliParse(_, _, _)
CliParse(lines, k, match_count) ==
    IF k > Len(lines) THEN CliOk(match_count, <<>>)
    ELSE IF IsBracketLine(lines[k])
    THEN IF ~BracketOk(lines[k]) THEN CliFailed
         ELSE CliOk(match_count, BracketPositions(lines[k]))
    ELSE CliParse(lines, k + 1, match_count)

\* run_cli_search(file_path, pattern), on what its two subprocesses did:
\* the --quiet run (its return code is checked, its first line is the
\* count) and the --verbose run (its return code is not looked at).
RunCliSearch(quiet, verbose) ==
    IF quiet.timed_out THEN CliFailed
    ELSE IF quiet.returncode # 0 THEN CliFailed
    ELSE LET first == Split(Strip(quiet.stdout), "\n")[1] IN
         IF ~IntOk(first) THEN CliFailed
         ELSE IF verbose.timed_out THEN CliFailed
         ELSE CliParse(Split(verbose.stdout, "\n"), 1, IntValue(first))

\* Output lines an engine may print: the two lines of the verbose grammar,
\* well formed and not, and a line of other text.
SampleLines ==
    { <<"M", "a", "t", "c", "h", "e", "s", " ", "f", "o", "u", "n", "d", ":", " ", "1">>,
      <<"M", "a", "t", "c", "h", "e", "s", " ", "f", "o", "u", "n", "d", ":", " ", "x">>,
      <<"[", "0", "]">>,
      <<"[", "1", ",", " ", "0", "]">>,
      <<"[", "]">>,
      <<"[", "x", "]">>,
      <<"x">> }

\* The text of a list of lines, each ended by a newline.
RECURSIVE JoinLines(_)
JoinLines(lines) ==
    IF lines = <<>> THEN <<>>
    ELSE Head(lines) \o <<"\n">> \o JoinLines(Tail(lines))

Stdouts == {JoinLines(ls) : ls \in SeqsUpTo(SampleLines, MaxLines)}

QuietStdouts == {<<"1", "\n">>, <<"x", "\n">>, <<>>}

\* What a subprocess.run(..., timeout=30) call can observe.
Procs(outs) ==
    {[timed_out |-> TRUE, returncode |-> 0, stdout |-> <<>>]}
        \cup {[timed_out |-> FALSE, returncode |-> rc, stdout |-> out] :
                rc \in {0, 1}, out \in outs}

InitAdapter ==
    /\ call \in {[fn |-> "run_gpu_search", proc |-> pr] : pr \in Procs(Stdouts)}
                  \cup {[fn |-> "run_cli_search", quiet |-> q, verbose |-> v] :
                          q \in Procs(QuietStdouts), v \in Procs(Stdouts)}
    /\ ret = NoRet
    /\ MainIdle

CallRunGpuSearch ==
    /\ call.fn = "run_gpu_search"
    /\ ret = NoRet
    /\ ret' = RunGpuSearch(call.proc)
    /\ UNCHANGED <<call, mainVars>>

CallRunCliSearch ==
    /\ call.fn = "run_cli_search"
    /\ ret = NoRet
    /\ ret' = RunCliSearch(call.quiet, call.verbose)
    /\ UNCHANGED <<call, mainVars>>

NextAdapter == CallRunGpuSearch \/ CallRunCliSearch

SpecAdapter == InitAdapter /\ [][NextAdapter]_vars

\* The verbose grammar of the CLI contract: a line "Matches found: <count>"
\* and a line "[<offset>, <offset>, ...]" ("[]" for no match).
AllDigits(t) == t # <<>> /\ \A i \in DOMAIN t : IsDigit(t[i])
IsCountLine(line) ==
    /\ StartsWith(line, MatchesFound \o <<" ">>)
    /\ AllDigits(SubSeq(line, Len(MatchesFound) + 2, Len(line)))
IsOffsetsLine(line) ==
    /\ IsBracketLine(line)
    /\ LET items == Split(SubSeq(line, 2, Len(line) - 1), ",") IN
       \/ line = <<"[", "]">>
       \/ /\ AllDigits(items[1])
          /\ \A i \in 2..Len(items) :
                items[i] # <<>> /\ items[i][1] = " " /\ AllDigits(Tail(items[i]))
VerboseParseable(stdout) ==
    /\ \E i \in DOMAIN Split(stdout, "\n") : IsCountLine(Split(stdout, "\n")[i])
    /\ \E i \in DOMAIN Split(stdout, "\n") : IsOffsetsLine(Split(stdout, "\n")[i])
QuietParseable(stdout) == AllDigits(Split(stdout, "\n")[1])

ProcSucceeded(proc) == ~proc.timed_out /\ proc.returncode = 0

\* C7: an engine adapter returns a count and positions without error iff
\* every engine subprocess exited with status 0 within the timeout and
\* printed output the CLI grammar parses; otherwise it returns an error.
C7_ErrorIffNotParsed ==
    /\ (call.fn = "run_gpu_search" /\ ret # NoRet) =>
          (ret.error = None <=>
              ProcSucceeded(call.proc) /\ VerboseParseable(call.proc.stdout))
    /\ (call.fn = "run_cli_search" /\ ret # NoRet) =>
          (~ret.none <=>
              /\ ProcSucceeded(call.quiet) /\ QuietParseable(call.quiet.stdout)
              /\ ProcSucceeded(call.verbose)
              /\ VerboseParseable(call.verbose.stdout))

----------------------------------------------------------------------------
(* accuracy_validation.py: run_grep_search                                 *)

\* Lines 47-53: the loop over the output lines from line k on; a line
\* without ':' is passed over, an offset that is no integer is a ValueError
\* (caught at line 54).
RECURSIVE GrepParse(_, _, _)
GrepParse(lines, k, positions) ==
    IF k > Len(lines) THEN GrepOk(positions)
    ELSE LET line == lines[k] IN
         IF line # <<>> /\ (\E i \in DOMAIN line : line[i] = ":")
         THEN IF IntOk(Split(line, ":")[1])
              THEN GrepParse(lines, k + 1,
                             Append(positions, IntValue(Split(line, ":")[1])))
              ELSE GrepFailed("Grep error")
         ELSE GrepParse(lines, k + 1, positions)

\* run_grep_search(file_path, pattern), on the output of a grep that
\* returned; its return code is not looked at.
RunGrepSearch(stdout) == GrepParse(Split(Strip(stdout), "\n"), 1, <<>>)

----------------------------------------------------------------------------
(* accuracy_validation.py: main and test_pattern_size, the suite           *)

\* Line 19: timeout=30 of the engine's subprocess.run.
GpuTimeout == 30

\* Lines 43-45: the scanner's subprocess.run is given no timeout.
NoTimeout == 0

\* The rows of main's table the suite runs.
NumRows == Min(MaxRows, Len(MainTestCases))

\* The number of entries of test_cases in test_pattern_size.
NumCases == Len(TestCases(1))

\* What the engine's subprocess can have done when it returned.
MainGpuProcs ==
    {[timed_out |-> FALSE, returncode |-> 1, stdout |-> <<>>],
     [timed_out |-> FALSE, returncode |-> 0, stdout |-> <<>>],
     [timed_out |-> FALSE, returncode |-> 0,
      stdout |-> <<"M", "a", "t", "c", "h", "e", "s", " ", "f", "o", "u", "n", "d", ":", " ", "1", "\n", "[", "0", "]", "\n">>]}

\* What the scanner can have printed when it returned.
MainGrepStdouts == {<<>>, <<"0", ":", "X", "\n">>, <<"x", ":", "X", "\n">>}

\* Line 199 written as an assignment: total_failures = failures.
AssignFailures(total, n) == n

\* Line 199: total_failures += failures.
AddFailures(total, n) == total + n

\* Lines 206-213: the value main returns, which sys.exit passes on.
ExitStatus(total) == IF total = 0 THEN 0 ELSE 1

\* Lines 128-151: every branch but the accepting one adds one to failures.
FailuresAfter(n, outcome) ==
    IF outcome \in {"gpu_error", "grep_error", "count_mismatch", "position_mismatch"}
    THEN n + 1 ELSE n

Init ==
    /\ call = [fn |-> "main"]
    /\ ret = NoRet
    /\ pc = "build"
    /\ build_returncode = NoCode
    /\ row = 0 /\ case_i = 0
    /\ failures = 0 /\ total_failures = 0
    /\ temp_files = {}
    /\ child = NoProc
    /\ gpu_result = NoResult /\ grep_result = NoResult
    /\ exit_status = NoCode
    /\ ran = 0 /\ rejected = 0

\* Lines 164-172: the build; a non-zero return code ends main with 1.
Build ==
    /\ pc = "build"
    /\ \E rc \in {0, 1} :
          /\ build_returncode' = rc
          /\ IF rc # 0
             THEN /\ pc' = "exited" /\ exit_status' = 1
                  /\ UNCHANGED <<row, total_failures>>
             ELSE /\ pc' = "row" /\ row' = 1 /\ total_failures' = 0
                  /\ UNCHANGED exit_status
    /\ UNCHANGED <<call, ret, case_i, failures, temp_files, child,
                   gpu_result, grep_result, ran, rejected>>

\* Lines 197-198, 107: main's loop calls test_pattern_size for the next row.
TestPatternSizeBegin ==
    /\ pc = "row" /\ row <= NumRows
    /\ failures' = 0 /\ case_i' = 1
    /\ pc' = "case"
    /\ UNCHANGED <<call, ret, build_returncode, row, total_failures,
                   temp_files, child, gpu_result, grep_result, exit_status,
                   ran, rejected>>

\* Lines 109-120, first half: the scenario's content is generated and
\* NamedTemporaryFile(delete=False) creates its file.
CreateTempFile ==
    /\ pc = "case" /\ case_i <= NumCases
    /\ temp_files' = temp_files \cup {<<row, case_i>>}
    /\ pc' = "write"
    /\ UNCHANGED <<call, ret, build_returncode, row, case_i, failures,
                   total_failures, child, gpu_result, grep_result,
                   exit_status, ran, rejected>>

\* Lines 119-120: f.write succeeds and the with block closes the file.
WriteTempFile ==
    /\ pc = "write"
    /\ pc' = "gpu"
    /\ UNCHANGED <<call, ret, build_returncode, row, case_i, failures,
                   total_failures, temp_files, child, gpu_result,
                   grep_result, exit_status, ran, rejected>>

\* Line 119: f.write raises (OSError: no space left, ...).  The with block
\* closes the file, delete=False keeps it, and the try of line 122 is not
\* entered yet: the exception leaves test_pattern_size and main, and the
\* interpreter ends with status 1.
WriteTempFileRaises ==
    /\ pc = "write"
    /\ pc' = "raised" /\ exit_status' = 1
    /\ UNCHANGED <<call, ret, build_returncode, row, case_i, failures,
                   total_failures, temp_files, child, gpu_result,
                   grep_result, ran, rejected>>

\* Lines 124, 17-19: run_gpu_search starts the engine with timeout=30; the
\* engine may never return.
StartGpuSearch ==
    /\ pc = "gpu"
    /\ \E h \in BOOLEAN :
          child' = [who |-> "gpu", timeout |-> GpuTimeout, hangs |-> h]
    /\ pc' = "gpu_wait"
    /\ UNCHANGED <<call, ret, build_returncode, row, case_i, failures,
                   total_failures, temp_files, gpu_result, grep_result,
                   exit_status, ran, rejected>>

\* Lines 21-36: the engine returned; run_gpu_search returns its result.
GpuSearchReturns ==
    /\ pc = "gpu_wait" /\ ~child.hangs
    /\ \E p \in MainGpuProcs : gpu_result' = RunGpuSearch(p)
    /\ child' = NoProc
    /\ pc' = "grep"
    /\ UNCHANGED <<call, ret, build_returncode, row, case_i, failures,
                   total_failures, temp_files, grep_result, exit_status, ran,
                   rejected>>

\* Lines 125, 43-45: run_grep_search starts the scanner, with no timeout;
\* the scanner may never return.
StartGrepSearch ==
    /\ pc = "grep"
    /\ \E h \in BOOLEAN :
          child' = [who |-> "grep", timeout |-> NoTimeout, hangs |-> h]
    /\ pc' = "grep_wait"
    /\ UNCHANGED <<call, ret, build_returncode, row, case_i, failures,
                   total_failures, temp_files, gpu_result, grep_result,
                   exit_status, ran, rejected>>

\* Lines 47-53: the scanner returned; run_grep_search returns its result.
GrepSearchReturns ==
    /\ pc = "grep_wait" /\ ~child.hangs
    /\ \E out \in MainGrepStdouts : grep_result' = RunGrepSearch(out)
    /\ child' = NoProc
    /\ pc' = "check"
    /\ UNCHANGED <<call, ret, build_returncode, row, case_i, failures,
                   total_failures, temp_files, gpu_result, exit_status, ran,
                   rejected>>

\* subprocess.run's timeout expires on a call that was given one: the child
\* is killed and TimeoutExpired is raised, which the caller's except
\* Exception turns into an error result (lines 37-38, 54-55).
TimeoutExpires ==
    /\ pc \in {"gpu_wait", "grep_wait"}
    /\ child.timeout # NoTimeout
    /\ IF child.who = "gpu"
       THEN /\ gpu_result' = RunGpuSearch([timed_out |-> TRUE, returncode |-> 0,
                                    stdout |-> <<>>])
            /\ pc' = "grep"
            /\ UNCHANGED grep_result
       ELSE /\ grep_result' = GrepFailed("Grep error")
            /\ pc' = "check"
            /\ UNCHANGED gpu_result
    /\ child' = NoProc
    /\ UNCHANGED <<call, ret, build_returncode, row, case_i, failures,
                   total_failures, temp_files, exit_status, ran, rejected>>

\* Lines 127-154: the check of the scenario, then the finally clause
\* unlinks the file and the loop goes on to the next case.
ScenarioCheck ==
    /\ pc = "check"
    /\ LET outcome == ScenarioOutcome(gpu_result, grep_result) IN
          /\ failures' = FailuresAfter(failures, outcome)
          /\ rejected' = IF outcome = "accepted" THEN rejected ELSE rejected + 1
    /\ ran' = ran + 1
    /\ temp_files' = temp_files \ {<<row, case_i>>}
    /\ case_i' = case_i + 1
    /\ gpu_result' = NoResult /\ grep_result' = NoResult
    /\ pc' = "case"
    /\ UNCHANGED <<call, ret, build_returncode, row, total_failures, child,
                   exit_status>>

\* Lines 127-154: a statement of the try body raises (a print to a closed
\* or non-UTF-8 stdout).  The finally clause unlinks the file, the
\* exception leaves main and the interpreter ends with status 1.
TryBodyRaises ==
    /\ pc = "check"
    /\ temp_files' = temp_files \ {<<row, case_i>>}
    /\ pc' = "raised" /\ exit_status' = 1
    /\ UNCHANGED <<call, ret, build_returncode, row, case_i, failures,
                   total_failures, child, gpu_result, grep_result, ran,
                   rejected>>

\* Lines 156, 198-203: test_pattern_size returns failures; main adds them.
TestPatternSizeReturn ==
    /\ pc = "case" /\ case_i > NumCases
    /\ total_failures' = AddFailures(total_failures, failures)
    /\ row' = row + 1
    /\ pc' = "row"
    /\ UNCHANGED <<call, ret, build_returncode, case_i, failures, temp_files,
                   child, gpu_result, grep_result, exit_status, ran,
                   rejected>>

\* Lines 205-213, 216: main returns and the process exits with its value.
MainReturn ==
    /\ pc = "row" /\ row > NumRows
    /\ exit_status' = ExitStatus(total_failures)
    /\ pc' = "exited"
    /\ UNCHANGED <<call, ret, build_returncode, row, case_i, failures,
                   total_failures, temp_files, child, gpu_result,
                   grep_result, ran, rejected>>

Next ==
    \/ Build
    \/ TestPatternSizeBegin
    \/ CreateTempFile
    \/ WriteTempFile
    \/ WriteTempFileRaises
    \/ StartGpuSearch
    \/ GpuSearchReturns
    \/ StartGrepSearch
    \/ GrepSearchReturns
    \/ TimeoutExpires
    \/ ScenarioCheck
    \/ TryBodyRaises
    \/ TestPatternSizeReturn
    \/ MainReturn

Spec == Init /\ [][Next]_vars

\* C8: when the build fails main ends with status 1 and no scenario was
\* run.  After a successful build the scenarios are run one after the
\* other whatever the earlier ones gave (the number run so far is fixed by
\* the position in the matrix), the failures counted so far are the
\* scenarios not accepted, and when main returns every scenario of the
\* matrix was run, total_failures is the number of scenarios not accepted,
\* and the status is 0 iff that number is 0.
C8_SuiteTotals ==
    /\ (pc = "exited" /\ build_returncode # 0) => (exit_status = 1 /\ ran = 0)
    /\ pc = "row" =>
          (ran = (row - 1) * NumCases /\ total_failures = rejected)
    /\ pc \in {"case", "write", "gpu", "gpu_wait", "grep", "grep_wait", "check"} =>
          /\ ran = (row - 1) * NumCases + (case_i - 1)
          /\ total_failures + failures = rejected
    /\ (pc = "exited" /\ build_returncode = 0) =>
          /\ ran = NumRows * NumCases
          /\ total_failures = rejected
          /\ (exit_status = 0 <=> rejected = 0)

\* main returned with status 1 although the scenarios of the last row were
\* all accepted: an earlier row's failures were kept.
C8_Witness ==
    /\ pc = "exited" /\ build_returncode = 0
    /\ failures = 0
    /\ rejected > 0
    /\ ran - rejected > 0
    /\ exit_status = 1

\* C9: an invocation that never returns does not stop the suite: while a
\* scenario waits on a subprocess that hangs, the expiry of its timeout is
\* there to end the wait.
C9_HungInvocationEnds ==
    (pc \in {"gpu_wait", "grep_wait"} /\ child.hangs) => ENABLED TimeoutExpires

\* C10: no temporary file exists once its scenario has ended: not when the
\* next scenario starts, not when test_pattern_size returns or is left by
\* an exception.
C10_TempFileRemoved ==
    pc \in {"case", "row", "exited", "raised"} => temp_files = {}

====
